---- MODULE Spec2Model ----
(***************************************************************************)
(* Voice emotion detection backend: the startup hook load_models, the      *)
(* /emotions query and the /predict handler predict_emotion of             *)
(* backend/main.py, together with preprocess_audio and extract_features of *)
(* backend/audio_processor.py.                                             *)
(*                                                                         *)
(* Samples are integers in units of 0.001 of full scale, so that the       *)
(* energy threshold 0.001 is one unit and the comparison                   *)
(*     sqrt(mean(audio ** 2)) < MIN_AUDIO_ENERGY                           *)
(* is decided exactly on integers.  The peak-normalised waveform           *)
(* audio / max|audio| is kept as the pair (samples, divisor).  The state   *)
(* space is explored at a reduced sample rate (ModelRate samples per       *)
(* second); the arithmetic of target_length is also evaluated at the       *)
(* configured SAMPLE_RATE.  The cepstral numerics of librosa are not       *)
(* modelled: a feature vector is represented by its length.                *)
(***************************************************************************)
EXTENDS Integers, Sequences, FiniteSets, TLC

\* ------------------------------------------------------------ bounds
ModelRate == 2
MaxExtra == 2
MaxClasses == 3
MaxRequests == 2

\* ------------------------------------------- configuration (audio_processor.py)
SAMPLE_RATE == 16000
DURATION_TENTHS == 35
N_MFCC == 40
MIN_AUDIO_ENERGY_MILLI == 1

\* int(sample_rate * DURATION), DURATION = 3.5 held in tenths of a second
TargetLength(sr) == (sr * DURATION_TENTHS) \div 10

target_length == TargetLength(ModelRate)

\* ------------------------------------------------------------ waveforms
\* full scale 1.0 in units of MIN_AUDIO_ENERGY (0.001)
FullScale == 1000 * MIN_AUDIO_ENERGY_MILLI

Patterns == {"silence", "faint", "ramp", "tail"}

\* The i-th sample (1-based) of the n-sample clip of pattern p.
PatternSample(p, n, i) ==
    CASE p = "silence" -> 0
      [] p = "faint"   -> IF i = 1 THEN 1 ELSE 0
      [] p = "ramp"    -> IF i % 2 = 0 THEN 100 * i ELSE 0 - (100 * i)
      [] p = "tail"    -> IF i = n THEN 0 - FullScale ELSE 0

MaxLen == target_length + MaxExtra

\* What librosa.load can decode to: mono clips of 0..MaxLen samples.
Waveforms ==
    { [i \in 1..n |-> PatternSample(p, n, i)] : n \in 0..MaxLen, p \in Patterns }

Abs(x) == IF x < 0 THEN 0 - x ELSE x

RECURSIVE SumSq(_)
SumSq(a) == IF a = <<>> THEN 0 ELSE Head(a) * Head(a) + SumSq(Tail(a))

RECURSIVE Peak(_)
\* np.max(np.abs(audio))
Peak(a) ==
    IF a = <<>> THEN 0
    ELSE LET r == Peak(Tail(a)) IN IF Abs(Head(a)) > r THEN Abs(Head(a)) ELSE r

\* audio_energy < MIN_AUDIO_ENERGY with audio_energy = sqrt(mean(audio ** 2)).
\* The mean of an empty array is nan, and nan < x is False.
GateRejects(a) ==
    /\ Len(a) > 0
    /\ SumSq(a) < Len(a) * MIN_AUDIO_ENERGY_MILLI * MIN_AUDIO_ENERGY_MILLI

Zeros(k) == [i \in 1..k |-> 0]

\* a faulty variant: the clip is centred (padding split, middle kept)
PadOrTrim_Centered(a) ==
    IF Len(a) < target_length
    THEN LET l == (target_length - Len(a)) \div 2
         IN  Zeros(l) \o a \o Zeros(target_length - Len(a) - l)
    ELSE LET s == (Len(a) - target_length) \div 2
         IN  SubSeq(a, s + 1, s + target_length)

\* np.pad(audio, (0, target_length - len(audio))) or audio[:target_length]
PadOrTrim(a) ==
    IF Len(a) < target_length
    THEN a \o Zeros(target_length - Len(a))
    ELSE SubSeq(a, 1, target_length)

\* a faulty variant: the division is not guarded
AmplitudeNormalize_Unguarded(a) == [samples |-> a, divisor |-> Peak(a)]

\* if np.max(np.abs(audio)) > 0: audio = audio / np.max(np.abs(audio))
AmplitudeNormalize(a) ==
    IF Peak(a) > 0
    THEN [samples |-> a, divisor |-> Peak(a)]
    ELSE [samples |-> a, divisor |-> 1]

\* np.concatenate of six N_MFCC-vectors
FeatureLength == 6 * N_MFCC

\* ------------------------------------------------------------ artifacts
Labels == <<"angry", "calm", "disgust", "fearful", "happy", "neutral", "sad", "surprised">>

None == [isNone |-> TRUE, n |-> 0, classes_ |-> <<>>]

\* a fitted classifier over the encoded classes 0..k-1
Classifier(k) == [isNone |-> FALSE, n |-> k, classes_ |-> <<>>]

\* a fitted LabelEncoder: classes_ is sorted and duplicate-free
LabelEncoder(m) == [isNone |-> FALSE, n |-> m, classes_ |-> SubSeq(Labels, 1, m)]

\* a fitted scaler over d features
Scaler(d) == [isNone |-> FALSE, n |-> d, classes_ |-> <<>>]

ScalerWidths == {FeatureLength, FeatureLength - 1}

ProbLevels == {10, 60}

Range(s) == { s[i] : i \in DOMAIN s }

\* ------------------------------------------------------------ responses
EmptyDict == [l \in {} |-> 0]

NoError == "<None>"

InvalidFormatResponse ==
    [emotion |-> "", confidence |-> 0, all_probabilities |-> EmptyDict,
     valid |-> FALSE, error |-> "Invalid file format. Please upload a .wav file"]

InvalidAudioResponse ==
    [emotion |-> "", confidence |-> 0, all_probabilities |-> EmptyDict,
     valid |-> FALSE,
     error |-> "Invalid audio: File is too quiet, corrupted, or not a valid audio format"]

\* a faulty variant: the handler reports the failure without a reason
ProcessingErrorResponse_NoReason(e) ==
    [emotion |-> "", confidence |-> 0, all_probabilities |-> EmptyDict,
     valid |-> FALSE, error |-> e]

ProcessingErrorResponse(e) ==
    [emotion |-> "", confidence |-> 0, all_probabilities |-> EmptyDict,
     valid |-> FALSE, error |-> "Processing error: " \o e]

NoResponse ==
    [emotion |-> "", confidence |-> 0, all_probabilities |-> EmptyDict,
     valid |-> FALSE, error |-> NoError]

\* str(e) of a failure of file.read() or tmp_file.write(); it may be empty
ReadErrors == {"", "read failed"}

\* file.filename.endswith('.wav') on filenames held as character tuples
EndsWith(s, suffix) ==
    /\ Len(s) >= Len(suffix)
    /\ SubSeq(s, Len(s) - Len(suffix) + 1, Len(s)) = suffix

DotWav == <<".", "w", "a", "v">>

Filenames == { <<"a", ".", "w", "a", "v">>, <<"a", ".", "W", "A", "V">>,
               <<"a", ".", "m", "p", "3">>, <<>> }

\* ------------------------------------------------------------ state
VARIABLES
    phase,            \* startup: "init", "loaded_model", "loaded_encoder",
                      \*          "serving", "aborted", "nolifespan"
    model,            \* global model
    label_encoder,    \* global label_encoder
    scaler,           \* global scaler
    pc,               \* position of the request being handled
    started,          \* requests received so far
    tmpfiles,         \* temporary files that exist on disk
    filename,         \* file.filename
    tmp_file_path,    \* local tmp_file_path; 0 while unbound
    audio,            \* local audio of preprocess_audio
    normalized,       \* audio after the amplitude step, as (samples, divisor)
    features,         \* local features: 0 for None, else the vector's length
    prediction,       \* model.predict(...)[0]
    probabilities,    \* model.predict_proba(...)[0]
    exc,              \* str(e) of the exception being handled
    response,         \* the PredictionResponse returned
    outcome,          \* "none", "returned" or "raised"
    decoded,          \* history: what librosa.load returned
    measured,         \* history: the samples the energy was computed on
    trace,            \* history: the stages invoked, in order
    okCount,          \* history: the stages completed successfully
    faults            \* history: the failures met by this request

globals == <<phase, model, label_encoder, scaler>>
locals == <<filename, tmp_file_path, audio, normalized, features, prediction,
            probabilities, exc>>
history == <<decoded, measured, trace, okCount, faults>>
vars == <<globals, pc, started, tmpfiles, locals, response, outcome, history>>

NoAudio == [samples |-> <<>>, divisor |-> 1]

Init ==
    /\ phase = "init"
    /\ model = None
    /\ label_encoder = None
    /\ scaler = None
    /\ pc = "idle"
    /\ started = 0
    /\ tmpfiles = {}
    /\ filename = <<>>
    /\ tmp_file_path = 0
    /\ audio = <<>>
    /\ normalized = NoAudio
    /\ features = 0
    /\ prediction = 0
    /\ probabilities = <<>>
    /\ exc = ""
    /\ response = NoResponse
    /\ outcome = "none"
    /\ decoded = <<>>
    /\ measured = <<>>
    /\ trace = <<>>
    /\ okCount = 0
    /\ faults = {}

\* ------------------------------------------------------------ startup
\* a faulty variant: the except clause of load_models does not re-raise
AfterLoadError_Swallowed == "serving"

\* except Exception: print(...); raise  -- the startup event fails
AfterLoadError == "aborted"

LoadClassifier ==
    /\ phase = "init"
    /\ \/ \E k \in 1..MaxClasses :
            /\ model' = Classifier(k)
            /\ phase' = "loaded_model"
       \/ /\ phase' = AfterLoadError
          /\ UNCHANGED model
    /\ UNCHANGED <<label_encoder, scaler, pc, started, tmpfiles, locals,
                   response, outcome, history>>

LoadLabelEncoder ==
    /\ phase = "loaded_model"
    /\ \/ \E m \in 1..MaxClasses :
            /\ label_encoder' = LabelEncoder(m)
            /\ phase' = "loaded_encoder"
       \/ /\ phase' = AfterLoadError
          /\ UNCHANGED label_encoder
    /\ UNCHANGED <<model, scaler, pc, started, tmpfiles, locals,
                   response, outcome, history>>

LoadScaler ==
    /\ phase = "loaded_encoder"
    /\ \/ \E d \in ScalerWidths :
            /\ scaler' = Scaler(d)
            /\ phase' = "serving"
       \/ /\ phase' = AfterLoadError
          /\ UNCHANGED scaler
    /\ UNCHANGED <<model, label_encoder, pc, started, tmpfiles, locals,
                   response, outcome, history>>

\* The application is driven without its startup events (lifespan off):
\* load_models never runs and the globals keep their initial None.
ServeWithoutStartup ==
    /\ phase = "init"
    /\ phase' = "nolifespan"
    /\ UNCHANGED <<model, label_encoder, scaler, pc, started, tmpfiles, locals,
                   response, outcome, history>>

Accepting == phase \in {"serving", "nolifespan"}

\* ------------------------------------------------------------ /emotions
\* get_emotions: label_encoder.classes_.tolist(), or HTTPException(500)
get_emotions ==
    IF label_encoder.isNone
    THEN [raised |-> TRUE, emotions |-> <<>>, count |-> 0]
    ELSE [raised |-> FALSE, emotions |-> label_encoder.classes_,
          count |-> Len(label_encoder.classes_)]

\* ------------------------------------------------------------ /predict
\* if model is None or label_encoder is None or scaler is None
ModelsNotLoaded == model.isNone \/ label_encoder.isNone \/ scaler.isNone

Return(r) ==
    /\ response' = r
    /\ outcome' = "returned"
    /\ pc' = "done"

Raise(e) ==
    /\ exc' = e
    /\ faults' = faults \cup {e}
    /\ pc' = "except"

Invoke(stage) == trace' = Append(trace, stage)

Receive ==
    /\ Accepting
    /\ pc \in {"idle", "done"}
    /\ started < MaxRequests
    /\ started' = started + 1
    /\ \E f \in Filenames :
        /\ filename' = f
        /\ tmp_file_path' = 0
        /\ audio' = <<>>
        /\ normalized' = NoAudio
        /\ features' = 0
        /\ prediction' = 0
        /\ probabilities' = <<>>
        /\ exc' = ""
        /\ decoded' = <<>>
        /\ measured' = <<>>
        /\ trace' = <<>>
        /\ okCount' = 0
        /\ faults' = {}
        /\ IF ModelsNotLoaded
           THEN \* raise HTTPException(status_code=500)
                /\ outcome' = "raised"
                /\ response' = NoResponse
                /\ pc' = "done"
                /\ UNCHANGED tmpfiles
           ELSE IF ~EndsWith(f, DotWav)
           THEN /\ Return(InvalidFormatResponse)
                /\ UNCHANGED tmpfiles
           ELSE \* tempfile.NamedTemporaryFile(delete=False, suffix='.wav')
                /\ tmpfiles' = tmpfiles \cup {started + 1}
                /\ outcome' = "none"
                /\ response' = NoResponse
                /\ pc' = "read"
    /\ UNCHANGED globals

\* content = await file.read(); tmp_file.write(content); tmp_file_path = name
ReadUpload ==
    /\ pc = "read"
    /\ \/ /\ tmp_file_path' = started
          /\ pc' = "load"
          /\ UNCHANGED <<exc, faults>>
       \/ /\ \E e \in ReadErrors : Raise(e)
          /\ UNCHANGED tmp_file_path
    /\ UNCHANGED <<globals, started, tmpfiles, filename, audio, normalized,
                   features, prediction, probabilities, response, outcome,
                   decoded, measured, trace, okCount>>

\* ---- preprocess_audio
\* audio, _ = librosa.load(file_path, sr=SAMPLE_RATE, mono=True); a decode
\* failure is caught by preprocess_audio, which then returns None.
Load ==
    /\ pc = "load"
    /\ Invoke("load")
    /\ \/ \E w \in Waveforms :
            /\ audio' = w
            /\ decoded' = w
            /\ okCount' = okCount + 1
            /\ pc' = "gate"
            /\ UNCHANGED faults
       \/ /\ faults' = faults \cup {"decode failed"}
          /\ pc' = "unlink"
          /\ UNCHANGED <<audio, decoded, okCount>>
    /\ UNCHANGED <<globals, started, tmpfiles, filename, tmp_file_path,
                   normalized, features, prediction, probabilities, exc,
                   response, outcome, measured>>

\* audio_energy = np.sqrt(np.mean(audio ** 2)); return None when too low
Gate ==
    /\ pc = "gate"
    /\ Invoke("gate")
    /\ measured' = audio
    /\ IF GateRejects(audio)
       THEN /\ pc' = "unlink"
            /\ UNCHANGED okCount
       ELSE /\ pc' = "length"
            /\ okCount' = okCount + 1
    /\ UNCHANGED <<globals, started, tmpfiles, locals, response, outcome,
                   decoded, faults>>

LengthNormalize ==
    /\ pc = "length"
    /\ Invoke("length")
    /\ audio' = PadOrTrim(audio)
    /\ okCount' = okCount + 1
    /\ pc' = "amplitude"
    /\ UNCHANGED <<globals, started, tmpfiles, filename, tmp_file_path,
                   normalized, features, prediction, probabilities, exc,
                   response, outcome, decoded, measured, faults>>

AmplitudeNormalizeStep ==
    /\ pc = "amplitude"
    /\ Invoke("amplitude")
    /\ normalized' = AmplitudeNormalize(audio)
    /\ okCount' = okCount + 1
    /\ pc' = "spectral"
    /\ UNCHANGED <<globals, started, tmpfiles, filename, tmp_file_path, audio,
                   features, prediction, probabilities, exc, response, outcome,
                   decoded, measured, faults>>

\* ---- extract_features
\* librosa.feature.mfcc and the two librosa.feature.delta calls; an exception
\* here is not caught by extract_features and reaches predict_emotion.
SpectralExtract ==
    /\ pc = "spectral"
    /\ Invoke("spectral")
    /\ \/ /\ okCount' = okCount + 1
          /\ pc' = "aggregate"
          /\ UNCHANGED <<exc, faults>>
       \/ /\ Raise("mfcc failed")
          /\ UNCHANGED okCount
    /\ UNCHANGED <<globals, started, tmpfiles, filename, tmp_file_path, audio,
                   normalized, features, prediction, probabilities, response,
                   outcome, decoded, measured>>

\* mean and std of the three matrices, concatenated; extract_features returns
Aggregate ==
    /\ pc = "aggregate"
    /\ Invoke("aggregate")
    /\ features' = FeatureLength
    /\ audio' = <<>>
    /\ normalized' = NoAudio
    /\ okCount' = okCount + 1
    /\ pc' = "unlink"
    /\ UNCHANGED <<globals, started, tmpfiles, filename, tmp_file_path,
                   prediction, probabilities, exc, response, outcome, decoded,
                   measured, faults>>

\* ---- predict_emotion, after extract_features has returned
\* os.unlink(tmp_file_path), line 129
Unlink ==
    /\ pc = "unlink"
    /\ \/ /\ tmpfiles' = tmpfiles \ {tmp_file_path}
          /\ pc' = "check"
          /\ UNCHANGED <<exc, faults>>
       \/ /\ Raise("unlink failed")
          /\ UNCHANGED tmpfiles
    /\ UNCHANGED <<globals, started, filename, tmp_file_path, audio, normalized,
                   features, prediction, probabilities, response, outcome,
                   decoded, measured, trace, okCount>>

\* if features is None: return PredictionResponse(valid=False, ...)
CheckFeatures ==
    /\ pc = "check"
    /\ IF features = 0
       THEN Return(InvalidAudioResponse)
       ELSE /\ pc' = "scale"
            /\ UNCHANGED <<response, outcome>>
    /\ UNCHANGED <<globals, started, tmpfiles, locals, history>>

\* features_scaled = scaler.transform(features.reshape(1, -1))
Scale ==
    /\ pc = "scale"
    /\ Invoke("scale")
    /\ IF scaler.n = features
       THEN /\ okCount' = okCount + 1
            /\ pc' = "classify"
            /\ UNCHANGED <<exc, faults>>
       ELSE /\ Raise("X has a different number of features")
            /\ UNCHANGED okCount
    /\ UNCHANGED <<globals, started, tmpfiles, filename, tmp_file_path, audio,
                   normalized, features, prediction, probabilities, response,
                   outcome, decoded, measured>>

\* prediction = model.predict(...)[0]; probabilities = model.predict_proba(...)[0]
Classify ==
    /\ pc = "classify"
    /\ Invoke("classify")
    /\ \/ \E c \in 0..(model.n - 1), pr \in [0..(model.n - 1) -> ProbLevels] :
            /\ prediction' = c
            /\ probabilities' = pr
            /\ okCount' = okCount + 1
            /\ pc' = "package"
            /\ UNCHANGED <<exc, faults>>
       \/ /\ Raise("predict failed")
          /\ UNCHANGED <<prediction, probabilities, okCount>>
    /\ UNCHANGED <<globals, started, tmpfiles, filename, tmp_file_path, audio,
                   normalized, features, response, outcome, decoded, measured>>

\* label_encoder.inverse_transform([i])[0] is defined for the encoded classes
CanDecode(i) == i \in 0..(label_encoder.n - 1)

inverse_transform(i) == label_encoder.classes_[i + 1]

\* a faulty variant: the confidence is the largest probability
Confidence_Max(c, pr) == CHOOSE x \in Range(pr) : \A y \in Range(pr) : y <= x

\* confidence = float(probabilities[prediction])
Confidence(c, pr) == pr[c]

\* {inverse_transform([i])[0]: float(prob) for i, prob in enumerate(probabilities)}
\* (a dict keeps the value of the last occurrence of a key)
AllProbs(pr) ==
    [l \in { inverse_transform(i) : i \in DOMAIN pr } |->
        pr[CHOOSE i \in DOMAIN pr :
              /\ inverse_transform(i) = l
              /\ \A j \in DOMAIN pr : inverse_transform(j) = l => j <= i]]

SuccessResponse(c, pr) ==
    [emotion |-> inverse_transform(c), confidence |-> Confidence(c, pr),
     all_probabilities |-> AllProbs(pr), valid |-> TRUE, error |-> NoError]

\* lines 150-164: decode the label, build the mapping, return the result
Package ==
    /\ pc = "package"
    /\ Invoke("package")
    /\ IF CanDecode(prediction) /\ \A i \in DOMAIN probabilities : CanDecode(i)
       THEN /\ Return(SuccessResponse(prediction, probabilities))
            /\ okCount' = okCount + 1
            /\ UNCHANGED <<exc, faults>>
       ELSE /\ Raise("y contains previously unseen labels")
            /\ UNCHANGED <<response, outcome, okCount>>
    /\ UNCHANGED <<globals, started, tmpfiles, filename, tmp_file_path, audio,
                   normalized, features, prediction, probabilities, decoded,
                   measured>>

\* except Exception as e: unlink the file if tmp_file_path is bound and the
\* file exists, then return the failure; an exception of this unlink leaves
\* the handler.
Except ==
    /\ pc = "except"
    /\ IF tmp_file_path # 0 /\ tmp_file_path \in tmpfiles
       THEN \/ /\ tmpfiles' = tmpfiles \ {tmp_file_path}
               /\ Return(ProcessingErrorResponse(exc))
               /\ UNCHANGED faults
            \/ /\ faults' = faults \cup {"unlink failed in handler"}
               /\ outcome' = "raised"
               /\ pc' = "done"
               /\ UNCHANGED <<tmpfiles, response>>
       ELSE /\ Return(ProcessingErrorResponse(exc))
            /\ UNCHANGED <<tmpfiles, faults>>
    /\ UNCHANGED <<globals, started, locals, decoded, measured, trace, okCount>>

Next ==
    \/ LoadClassifier
    \/ LoadLabelEncoder
    \/ LoadScaler
    \/ ServeWithoutStartup
    \/ Receive
    \/ ReadUpload
    \/ Load
    \/ Gate
    \/ LengthNormalize
    \/ AmplitudeNormalizeStep
    \/ SpectralExtract
    \/ Aggregate
    \/ Unlink
    \/ CheckFeatures
    \/ Scale
    \/ Classify
    \/ Package
    \/ Except

Spec == Init /\ [][Next]_vars

\* ============================================================ properties
AllLoaded == ~model.isNone /\ ~label_encoder.isNone /\ ~scaler.isNone

SomeLoaded == ~model.isNone \/ ~label_encoder.isNone \/ ~scaler.isNone

Returned == pc = "done" /\ outcome = "returned"

Predicted == Returned /\ response.valid

DecodeSucceeded == okCount >= 1

\* RMS energy below 0.001, in sample units
LowEnergy(w) == Len(w) > 0 /\ SumSq(w) < Len(w)

Min(a, b) == IF a < b THEN a ELSE b

StageOrder == <<"load", "gate", "length", "amplitude", "spectral",
                "aggregate", "scale", "classify", "package">>

\* C1: every request ends by returning a PredictionResponse; none ends by an
\* exception or HTTP error leaving predict_emotion.
C1_NeverRaises == outcome # "raised"

\* C2: when a request has finished, on whatever path, no temporary file
\* exists any more.
C2_NoTempFileLeft == pc \in {"idle", "done"} => tmpfiles = {}

\* C3: the serving state is reached only when the classifier and the label
\* decoder agree on the class count.
C3_RefusesInconsistentArtifacts == phase = "serving" => model.n = label_encoder.n

\* C4: a partially loaded artifact set is never served: a load failure aborts
\* startup, requests are accepted only with all three artifacts or none, and
\* every valid=true result was computed with all three loaded.
C4_NoPartialServing ==
    /\ phase = "serving" => AllLoaded
    /\ (SomeLoaded /\ ~AllLoaded) => (~Accepting /\ pc = "idle" /\ started = 0)
    /\ Predicted => AllLoaded

C4_Witness ==
    /\ phase = "aborted"
    /\ ~model.isNone
    /\ ~label_encoder.isNone
    /\ scaler.isNone

\* C5: a request whose decoded waveform has RMS energy below 0.001 ends with
\* the too-quiet failure result, without any spectral extraction, scaling or
\* classification.
C5_QuietClipRejected ==
    (pc = "done" /\ DecodeSucceeded /\ LowEnergy(decoded)) =>
        /\ outcome = "returned"
        /\ response = InvalidAudioResponse
        /\ Len(trace) = 2

\* C5, the part that holds on every path: a low-energy clip reaches neither
\* the spectral extractor nor the scaler nor the classifier, and never yields
\* a valid=true result.
QuietClipShortCircuits ==
    (DecodeSucceeded /\ LowEnergy(decoded)) =>
        /\ Len(trace) <= 2
        /\ ~Predicted
        /\ pc \notin {"length", "amplitude", "spectral", "aggregate", "scale",
                      "classify", "package"}

\* C6: the length normalizer outputs exactly target_length samples: the
\* input's first samples in order, then zeros; target_length is 56000 at the
\* configured sample rate.
C6_FixedLength ==
    /\ TargetLength(SAMPLE_RATE) = 56000
    /\ pc = "amplitude" =>
        /\ Len(audio) = target_length
        /\ \A i \in 1..Min(Len(decoded), target_length) : audio[i] = decoded[i]
        /\ \A i \in (Len(decoded) + 1)..target_length : audio[i] = 0
    /\ pc \in {"spectral", "aggregate"} =>
        Len(normalized.samples) = target_length

C6_Witness ==
    /\ pc = "amplitude"
    /\ Len(decoded) > target_length
    /\ \A i \in 1..Len(decoded) : decoded[i] # 0

C6_WitnessShorter ==
    /\ pc = "amplitude"
    /\ Len(decoded) \in 1..(target_length - 1)
    /\ \A i \in 1..Len(decoded) : decoded[i] # 0

C6_WitnessEqual ==
    /\ pc = "amplitude"
    /\ Len(decoded) = target_length
    /\ \A i \in 1..Len(decoded) : decoded[i] # 0

\* C7: the keys of all_probabilities of a valid=true result are exactly the
\* labels that /emotions reports.
C7_KeysAreKnownLabels ==
    Predicted => DOMAIN response.all_probabilities = Range(get_emotions.emotions)

\* C8: the confidence of a valid=true result is the value that
\* all_probabilities holds under the returned emotion.
C8_ConfidenceConsistent ==
    Predicted =>
        /\ response.emotion \in DOMAIN response.all_probabilities
        /\ response.confidence = response.all_probabilities[response.emotion]

C8_Witness ==
    /\ Predicted
    /\ \E l \in DOMAIN response.all_probabilities :
          response.all_probabilities[l] > response.confidence

\* C9: a failure result has a non-empty error, an empty emotion, confidence 0
\* and an empty mapping; a success result has no error.
C9_WellFormed ==
    Returned =>
        IF response.valid
        THEN response.error = NoError
        ELSE /\ response.error \notin {NoError, ""}
             /\ response.emotion = ""
             /\ response.confidence = 0
             /\ response.all_probabilities = EmptyDict

C9_Witness ==
    /\ Returned
    /\ ~response.valid
    /\ exc = ""
    /\ faults # {}

\* C10: the stages of a request are invoked in the fixed order, each at most
\* once and only after every earlier one completed; the energy is measured on
\* the waveform as decoded; the amplitude normalizer works on target_length
\* samples and divides by the peak unless the peak is zero.
C10_StagesForward ==
    /\ trace = SubSeq(StageOrder, 1, Len(trace))
    /\ okCount <= Len(trace)
    /\ Len(trace) <= okCount + 1
    /\ Len(trace) >= 2 => measured = decoded
    /\ pc \in {"spectral", "aggregate"} =>
        /\ Len(normalized.samples) = target_length
        /\ normalized.samples = PadOrTrim(decoded)
        /\ normalized.divisor > 0
        /\ normalized.divisor =
             (IF \A i \in 1..target_length : normalized.samples[i] = 0
              THEN 1 ELSE Peak(normalized.samples))

C10_Witness ==
    /\ pc = "spectral"
    /\ Len(decoded) > target_length
    /\ \A i \in 1..target_length : normalized.samples[i] = 0
====
